---- MODULE Spec2Model ----
(***************************************************************************)
(* Model of the derive macro `Model` of rusql-alchemy-macro (src/lib.rs).  *)
(*                                                                         *)
(* model_derive walks the named fields of a struct in declaration order.   *)
(* For every field it reads the #[model(...)] modifiers, appends one DDL   *)
(* clause to schema_fields, and maintains create_args, update_args and     *)
(* the_primary_key.  After the loop it emits the impl block (NAME, SCHEMA, *)
(* PK, save, update, delete).  A panic anywhere aborts the expansion and   *)
(* nothing is emitted.                                                     *)
(*                                                                         *)
(* A token stream is modelled by the sequence of pieces its to_string()    *)
(* is made of; a string-literal token contributes its two double quotes as *)
(* pieces of their own, so that .replace('"', "") has something to remove. *)
(***************************************************************************)
EXTENDS Integers, Sequences, FiniteSets, TLC

\* Longest struct whose fields are drawn from CoreDecls.
MaxFields == 3

\* The struct the macro is applied to: its name, and the names of its fields
\* by position (Rust field names are distinct).
ModelName == "User"
FieldNames == <<"id", "name", "email", "created_at", "updated_at", "owner", "note", "extra">>

-----------------------------------------------------------------------------
(* Declared types.  A type is the sequence of the last path segments met   *)
(* when descending through the first generic argument: Option<String> is   *)
(* <<"Option", "String">>, a bare Option is <<"Option">>.  NonPath stands  *)
(* for a type that is not a Type::Path (a reference, a tuple, ...).         *)
NonPath == "&"

SemanticTypes ==
    {"Serial", "Integer", "String", "Float", "Text", "Date", "Boolean", "DateTime"}

TypeExprs ==
    {<<t>> : t \in SemanticTypes}
        \cup {<<"Option", t>> : t \in {"String", "Integer", "Date", "DateTime"}}
        \cup { <<"Option", "Option", "String">>, <<"Option">>, <<"Uuid">>,
               <<"Option", "Uuid">>, <<"Vec", "String">>,
               <<NonPath>>, <<"Option", NonPath>> }

(* Literals of the modifiers.  value is the literal's source text; the     *)
(* value of a foreign_key string is kept as chunks, "." being a chunk.     *)
NoLit == [kind |-> "None", value |-> ""]
BoolLit(b) == [kind |-> "Bool", value |-> b]
IntLit(n) == [kind |-> "Int", value |-> n]
StrLit(s) == [kind |-> "Str", value |-> s]
FloatLit(x) == [kind |-> "Float", value |-> x]

NoFk == [kind |-> "None", value |-> <<>>]
FkLit(chunks) == [kind |-> "Str", value |-> chunks]

PrimaryKeyLits == {NoLit, BoolLit("true"), BoolLit("false")}
AutoLits == {NoLit, BoolLit("true")}
UniqueLits == {NoLit, BoolLit("true")}
SizeLits == {NoLit, IntLit("50")}
DefaultLits ==
    {NoLit, StrLit("now"), StrLit("abc"), BoolLit("true"), BoolLit("false"),
     IntLit("7"), FloatLit("1.5")}
ForeignKeyLits ==
    {NoFk, FkLit(<<"users", ".", "id">>), FkLit(<<"users">>), FkLit(<<"users", ".">>),
     FkLit(<<".", "id">>), FkLit(<<"a", ".", "b", ".", "c">>)}

Decl(ty, pk, auto, unique, size, default, fk) ==
    [ty |-> ty, primary_key |-> pk, auto |-> auto, unique |-> unique,
     size |-> size, default |-> default, foreign_key |-> fk]

\* Every combination of declared type and modifiers.
FullDecls ==
    [ty : TypeExprs, primary_key : PrimaryKeyLits, auto : AutoLits,
     unique : UniqueLits, size : SizeLits, default : DefaultLits,
     foreign_key : ForeignKeyLits]

\* The declarations multi-field structs are built from: every combination of
\* the modifiers through which one field can affect another field's entries.
CoreDecls ==
    [ty : {<<"Serial">>, <<"Integer">>}, primary_key : PrimaryKeyLits,
     auto : AutoLits, unique : {NoLit}, size : {NoLit},
     default : {NoLit, IntLit("7")}, foreign_key : {NoFk}]
        \cup { Decl(<<"Integer">>, NoLit, NoLit, NoLit, NoLit, FloatLit("1.5"), NoFk),
               Decl(<<"Integer">>, NoLit, NoLit, NoLit, NoLit, StrLit("now"), NoFk) }

\* The example model of the documentation.
UserModel ==
    << Decl(<<"Serial">>, BoolLit("true"), BoolLit("true"), NoLit, NoLit, NoLit, NoFk),
       Decl(<<"String">>, NoLit, NoLit, BoolLit("true"), IntLit("50"), NoLit, NoFk),
       Decl(<<"Option", "String">>, NoLit, NoLit, NoLit, NoLit, NoLit, NoFk),
       Decl(<<"DateTime">>, NoLit, NoLit, NoLit, NoLit, StrLit("now"), NoFk) >>

\* The structs the macro is run on: one field of any declaration, up to
\* MaxFields fields of core declarations, or the example model.
IsInput(fs) ==
    \/ Len(fs) = 1 /\ fs[1] \in FullDecls
    \/ Len(fs) <= MaxFields /\ \A i \in 1..Len(fs) : fs[i] \in CoreDecls
    \/ Len(fs) <= Len(UserModel) /\ fs = SubSeq(UserModel, 1, Len(fs))

-----------------------------------------------------------------------------
VARIABLES
    pc,               \* "loop" | "done" | "panicked"
    fields,           \* the declarations the loop has consumed so far
    schema_fields,    \* Vec of clauses (each a sequence of pieces)
    create_args,      \* Vec of field names
    update_args,      \* Vec of field names
    the_primary_key,  \* token stream: <<>> or <<field_name, ".clone()">>
    expanded          \* the emitted impl block, NoOutput until emitted

vars == <<pc, fields, schema_fields, create_args, update_args, the_primary_key, expanded>>

Panic == "!panic"
PanicTokens == <<"!panic">>
NoOutput == [emitted |-> FALSE]

-----------------------------------------------------------------------------
(* Helpers on vectors and strings.                                         *)

\* Vec::pop: removes the last element; nothing happens on an empty vector.
pop(v) == IF v = <<>> THEN v ELSE SubSeq(v, 1, Len(v) - 1)

\* str::split('.') on a string given as chunks: the parts between the dots.
RECURSIVE split(_)
split(chunks) ==
    IF chunks = <<>> THEN <<"">>
    ELSE LET rest == split(Tail(chunks))
         IN  IF Head(chunks) = "." THEN <<"">> \o rest
             ELSE <<Head(chunks) \o Head(rest)>> \o Tail(rest)

\* str::replace(pat, ""): every occurrence of the piece pat is removed.
replace(pieces, pat) == SelectSeq(pieces, LAMBDA p : p # pat)

\* The pieces written out one after the other.
RECURSIVE to_string(_)
to_string(pieces) ==
    IF pieces = <<>> THEN "" ELSE Head(pieces) \o to_string(Tail(pieces))

\* [a, b, c].join(sep) on a vector of piece sequences.
RECURSIVE join(_, _)
join(v, sep) ==
    IF v = <<>> THEN <<>>
    ELSE IF Len(v) = 1 THEN Head(v)
    ELSE Head(v) \o <<sep>> \o join(Tail(v), sep)

\* A string-literal token as to_string() prints it.
StrToken(s) == <<"\"", s, "\"">>

-----------------------------------------------------------------------------
(* The field loop, lines 26-174.                                           *)

RECURSIVE extract_inner_type(_)
extract_inner_type(ty) ==
    IF Head(ty) = NonPath THEN Panic
    ELSE IF Head(ty) = "Option" /\ Len(ty) > 1 THEN extract_inner_type(Tail(ty))
    ELSE Head(ty)

is_nullable(ty) == Head(ty) # NonPath /\ Head(ty) = "Option"

\* primary_key = <bool literal>: the literal's value.
is_primary_key(decl) ==
    decl.primary_key.kind = "Bool" /\ decl.primary_key.value = "true"

\* the_primary_key after the field's modifiers were read.
set_the_primary_key(old, decl, field_name) ==
    IF decl.primary_key.kind = "Bool" THEN <<field_name, ".clone()">> ELSE old

is_auto(decl) == decl.auto.kind = "Bool" /\ decl.auto.value = "true"

is_unique(decl) == decl.unique.kind = "Bool" /\ decl.unique.value = "true"

\* is_default is set by the presence of the modifier, whatever its literal.
is_default(decl) == decl.default.kind # "None"

\* default_tokens without the check of the field type: "now" is always
\* rendered, as current_date on Date and as current_timestamp elsewhere.
default_tokens_unchecked_now(decl, field_type) ==
    IF decl.default.kind = "Str" THEN
        IF decl.default.value = "now" THEN
            IF field_type = "Date" THEN <<"default", "current_date">>
            ELSE <<"default", "current_timestamp">>
        ELSE <<"default">> \o StrToken("'" \o decl.default.value \o "'")
    ELSE IF decl.default.kind = "Bool" THEN
        IF decl.default.value = "true" THEN <<"default", "1">> ELSE <<"default", "0">>
    ELSE IF decl.default.kind = "Int" THEN <<"default", decl.default.value>>
    ELSE <<>>

\* The default part of the clause.
default_tokens(decl, field_type) ==
    IF decl.default.kind = "Str" THEN
        IF decl.default.value = "now" THEN
            IF field_type = "Date" THEN <<"default", "current_date">>
            ELSE IF field_type = "DateTime" THEN <<"default", "current_timestamp">>
            ELSE PanicTokens
        ELSE <<"default">> \o StrToken("'" \o decl.default.value \o "'")
    ELSE IF decl.default.kind = "Bool" THEN
        IF decl.default.value = "true" THEN <<"default", "1">> ELSE <<"default", "0">>
    ELSE IF decl.default.kind = "Int" THEN <<"default", decl.default.value>>
    ELSE <<>>

\* The references part of the clause.
foreign_key_tokens(decl) ==
    IF decl.foreign_key.kind = "Str" THEN
        LET foreign_key_parts == split(decl.foreign_key.value)
        IN  IF Len(foreign_key_parts) # 2 THEN PanicTokens
            ELSE <<"references">> \o StrToken(foreign_key_parts[1])
                    \o <<"(">> \o StrToken(foreign_key_parts[2]) \o <<")">>
    ELSE <<>>

base_type(decl, field_type) ==
    CASE field_type = "Serial" -> <<"serial">>
      [] field_type = "Integer" -> <<"integer">>
      [] field_type = "String" ->
            IF decl.size.kind = "Int" THEN <<"varchar", "(", decl.size.value, ")">>
            ELSE <<"varchar", "(", "255", ")">>
      [] field_type = "Float" -> <<"float">>
      [] field_type = "Text" -> <<"text">>
      [] field_type = "Date" -> <<"varchar", "(", "10", ")">>
      [] field_type = "Boolean" -> <<"integer">>
      [] field_type = "DateTime" -> <<"varchar", "(", "40", ")">>
      [] OTHER -> PanicTokens

primary_key_tokens(decl) ==
    IF is_primary_key(decl) THEN
        <<"primary", "key">> \o (IF is_auto(decl) THEN <<"autoincrement">> ELSE <<>>)
    ELSE <<>>

\* push_create_args pushing every field, generated primary keys included.
push_create_args_every_field(args, decl, field_type, field_name) ==
    Append(args, field_name)

\* create_args after lines 139-153.
push_create_args(args, decl, field_type, field_name) ==
    IF is_primary_key(decl) THEN
        IF is_auto(decl) THEN args
        ELSE IF field_type = "Serial" THEN args
        ELSE Append(args, field_name)
    ELSE Append(args, field_name)

\* pop_default without the removal.
pop_default_never(args, decl) == args

\* create_args after lines 155-157.
pop_default(args, decl) == IF is_default(decl) THEN pop(args) ELSE args

\* update_args after lines 139-153.
push_update_args(args, decl, field_name) ==
    IF is_primary_key(decl) THEN args ELSE Append(args, field_name)

\* nullable_tokens leaving not null out of a column that has a default.
nullable_tokens_unless_default(decl) ==
    IF is_nullable(decl.ty) \/ is_default(decl) THEN <<>> ELSE <<"not", "null">>

nullable_tokens(decl) == IF is_nullable(decl.ty) THEN <<>> ELSE <<"not", "null">>

unique_tokens(decl) == IF is_unique(decl) THEN <<"unique">> ELSE <<>>

\* quote! { #field_name #base_type #primary_key #unique #default #nullable #foreign_key }
field_schema(decl, field_type, field_name) ==
    <<field_name>> \o base_type(decl, field_type) \o primary_key_tokens(decl)
        \o unique_tokens(decl) \o default_tokens(decl, field_type)
        \o nullable_tokens(decl) \o foreign_key_tokens(decl)

\* Some step of the iteration panics.
panics(decl) ==
    LET field_type == extract_inner_type(decl.ty)
    IN  \/ field_type = Panic
        \/ default_tokens(decl, field_type) = PanicTokens
        \/ foreign_key_tokens(decl) = PanicTokens
        \/ base_type(decl, field_type) = PanicTokens

-----------------------------------------------------------------------------
(* The artifacts, lines 176-255.                                           *)

PK(tpk) == to_string(replace(tpk, ".clone()"))

SCHEMA(name, sf) ==
    replace(<<"create table if not exists ", name, " (">> \o join(sf, ", ") \o <<");">>,
            "\"")

delete_query(name, tpk) ==
    replace(<<"delete from ", name, " where ">> \o tpk \o <<"=?1;">>, ".clone()")

expand(name, sf, ca, ua, tpk) ==
    [emitted |-> TRUE,
     NAME |-> name,
     SCHEMA |-> SCHEMA(name, sf),
     PK |-> PK(tpk),
     save |-> ca,
     update_key |-> tpk,
     update |-> ua,
     delete |-> to_string(delete_query(name, tpk))]

-----------------------------------------------------------------------------
Init ==
    /\ pc = "loop"
    /\ fields = <<>>
    /\ schema_fields = <<>>
    /\ create_args = <<>>
    /\ update_args = <<>>
    /\ the_primary_key = <<>>
    /\ expanded = NoOutput

\* The declarations that may follow the fields read so far.
NextDecls(fs) ==
    IF fs = <<>> THEN FullDecls
    ELSE {d \in CoreDecls \cup {UserModel[i] : i \in 1..Len(UserModel)} :
            IsInput(Append(fs, d))}

\* One iteration of `for field in fields`; a panic ends the expansion.
ProcessField(decl) ==
    /\ pc = "loop"
    /\ fields' = Append(fields, decl)
    /\ LET field_name == FieldNames[Len(fields) + 1]
           field_type == extract_inner_type(decl.ty)
       IN  IF panics(decl) THEN
               /\ pc' = "panicked"
               /\ schema_fields' = <<>>
               /\ create_args' = <<>>
               /\ update_args' = <<>>
               /\ the_primary_key' = <<>>
               /\ UNCHANGED expanded
           ELSE
               /\ pc' = "loop"
               /\ the_primary_key' = set_the_primary_key(the_primary_key, decl, field_name)
               /\ create_args' =
                     pop_default(push_create_args(create_args, decl, field_type, field_name),
                                 decl)
               /\ update_args' = push_update_args(update_args, decl, field_name)
               /\ schema_fields' =
                     Append(schema_fields, field_schema(decl, field_type, field_name))
               /\ UNCHANGED expanded

\* The loop is over: the impl block is emitted.
Expand ==
    /\ pc = "loop"
    /\ IsInput(fields) \/ fields = <<>>
    /\ pc' = "done"
    /\ expanded' = expand(ModelName, schema_fields, create_args, update_args,
                          the_primary_key)
    /\ UNCHANGED <<fields, schema_fields, create_args, update_args, the_primary_key>>

Next ==
    \/ \E decl \in NextDecls(fields) : ProcessField(decl)
    \/ Expand

Spec == Init /\ [][Next]_vars

-----------------------------------------------------------------------------
(* Vocabulary of the properties.                                           *)

Generated == pc = "done"
Failed == pc = "panicked" /\ expanded = NoOutput

Name(i) == FieldNames[i]
Occurrences(v, x) == Cardinality({k \in DOMAIN v : v[k] = x})
Contains(v, sub) ==
    \E k \in 1..(Len(v) - Len(sub) + 1) : SubSeq(v, k, k + Len(sub) - 1) = sub

\* The type name at the bottom of the declared type, and the name left
\* after removing one optional wrapper.
SemanticType(d) == d.ty[Len(d.ty)]
UnwrapOnce(ty) == IF Head(ty) = "Option" /\ Len(ty) > 1 THEN ty[2] ELSE Head(ty)
Wrapped(d) == Head(d.ty) = "Option"

MarkedPrimaryKey(d) == d.primary_key = BoolLit("true")
MarkedAuto(d) == d.auto = BoolLit("true")
HasDefault(d) == d.default # NoLit
HasForeignKey(d) == d.foreign_key.kind = "Str"
DefaultNow(d) == d.default = StrLit("now")

\* The foreign-key string is <table>.<column> with both parts non-empty.
TwoNonEmptyParts(chunks) ==
    Len(chunks) = 3 /\ chunks[1] # "." /\ chunks[2] = "." /\ chunks[3] # "."

RECURSIVE SplitOn(_, _)
SplitOn(v, sep) ==
    IF v = <<>> THEN << <<>> >>
    ELSE LET rest == SplitOn(Tail(v), sep)
         IN  IF Head(v) = sep THEN << <<>> >> \o rest
             ELSE << <<Head(v)>> \o Head(rest) >> \o Tail(rest)

\* The column clauses of an emitted create-table statement.
DDLClauses(schema) == SplitOn(SubSeq(schema, 4, Len(schema) - 1), ", ")
Clause(i) == DDLClauses(expanded.SCHEMA)[i]

createArgs == expanded.save
updateArgs == expanded.update

-----------------------------------------------------------------------------
(* The properties.                                                         *)

SolePrimaryKey(i) ==
    \A j \in DOMAIN fields : MarkedPrimaryKey(fields[j]) => j = i

\* C1 as stated: a field marked primary_key=true is absent from createArgs
\* when it is auto or Serial, and occurs in it exactly once otherwise,
\* whatever its other modifiers (a default included).
C1_AsStated ==
    Generated =>
        \A i \in DOMAIN fields :
            MarkedPrimaryKey(fields[i]) =>
                IF MarkedAuto(fields[i]) \/ SemanticType(fields[i]) = "Serial"
                THEN Occurrences(createArgs, Name(i)) = 0
                ELSE Occurrences(createArgs, Name(i)) = 1

\* C1 amended: a field marked primary_key=true is absent from createArgs
\* when it is auto, Serial or declares a default, and never occurs twice;
\* when it is the only field marked primary_key=true and is neither auto,
\* Serial nor defaulted, it occurs exactly once.
C1_PrimaryKeyInCreateArgs ==
    Generated =>
        \A i \in DOMAIN fields :
            MarkedPrimaryKey(fields[i]) =>
                /\ Occurrences(createArgs, Name(i)) <= 1
                /\ ( MarkedAuto(fields[i]) \/ SemanticType(fields[i]) = "Serial"
                        \/ HasDefault(fields[i]) )
                     => Occurrences(createArgs, Name(i)) = 0
                /\ ( /\ SolePrimaryKey(i)
                     /\ ~MarkedAuto(fields[i])
                     /\ SemanticType(fields[i]) # "Serial"
                     /\ ~HasDefault(fields[i]) )
                     => Occurrences(createArgs, Name(i)) = 1

\* C1 witness: a caller-supplied primary key without default is in
\* createArgs once, next to a defaulted field that was removed.
C1_Witness ==
    /\ Generated
    /\ \E i, j \in DOMAIN fields :
        /\ MarkedPrimaryKey(fields[i]) /\ SolePrimaryKey(i)
        /\ ~MarkedAuto(fields[i]) /\ SemanticType(fields[i]) = "Integer"
        /\ ~HasDefault(fields[i])
        /\ Occurrences(createArgs, Name(i)) = 1
        /\ j > i /\ HasDefault(fields[j])
        /\ Occurrences(createArgs, Name(j)) = 0

\* C2: a field not marked primary key is in updateArgs, and is in createArgs
\* exactly when it declares no default, whatever the other fields declare.
C2_NonKeyFieldArgs ==
    Generated =>
        \A i \in DOMAIN fields :
            ~MarkedPrimaryKey(fields[i]) =>
                /\ Occurrences(updateArgs, Name(i)) = 1
                /\ IF HasDefault(fields[i])
                   THEN Occurrences(createArgs, Name(i)) = 0
                   ELSE Occurrences(createArgs, Name(i)) = 1

\* C3: the field emitted as the model's primary key (PK, the key of the
\* update plan and of the delete statement) never occurs in updateArgs.
C3_KeyNotInUpdateArgs ==
    Generated =>
        /\ Occurrences(updateArgs, expanded.PK) = 0
        /\ \A k \in DOMAIN expanded.update_key :
              Occurrences(updateArgs, expanded.update_key[k]) = 0

\* The first field, in declaration order, marked primary_key=true; "" if none.
FirstPrimaryKey ==
    IF \E i \in DOMAIN fields : MarkedPrimaryKey(fields[i])
    THEN Name(CHOOSE i \in DOMAIN fields :
                /\ MarkedPrimaryKey(fields[i])
                /\ \A j \in 1..(i - 1) : ~MarkedPrimaryKey(fields[j]))
    ELSE ""

\* C4: the emitted primary-key name, and the key column of the delete
\* statement, is the first field marked primary_key=true, or empty if none.
C4_FirstPrimaryKeyWins ==
    Generated =>
        /\ expanded.PK = FirstPrimaryKey
        /\ expanded.delete
             = "delete from " \o ModelName \o " where " \o FirstPrimaryKey \o "=?1;"

\* C5: a field with a foreign_key string generates only if the string is
\* <table>.<column> with both parts non-empty, and then its clause contains
\* references <table>(<column>); any other string fails the generation and
\* nothing is emitted.
C5_ForeignKeyShape ==
    \A i \in DOMAIN fields :
        HasForeignKey(fields[i]) =>
            IF TwoNonEmptyParts(fields[i].foreign_key.value)
            THEN Generated =>
                    Contains(Clause(i),
                             <<"references", fields[i].foreign_key.value[1], "(",
                               fields[i].foreign_key.value[3], ")">>)
            ELSE Failed

\* C6 as stated: the example model User yields the documented artifacts,
\* the clause of id being id serial primary key autoincrement.
C6_AsStated ==
    (Generated /\ fields = UserModel) =>
        /\ expanded.SCHEMA =
             <<"create table if not exists ", "User", " (",
               "id", "serial", "primary", "key", "autoincrement", ", ",
               "name", "varchar", "(", "50", ")", "unique", "not", "null", ", ",
               "email", "varchar", "(", "255", ")", ", ",
               "created_at", "varchar", "(", "40", ")", "default",
               "current_timestamp", "not", "null", ");">>
        /\ createArgs = <<"name", "email">>
        /\ updateArgs = <<"name", "email", "created_at">>
        /\ expanded.delete = "delete from User where id=?1;"

\* C6 amended: the example model User yields the documented createArgs,
\* updateArgs and delete statement, and the documented DDL except that the
\* clause of id, which is not optional, ends in not null.
C6_UserExample ==
    (Generated /\ fields = UserModel) =>
        /\ expanded.SCHEMA =
             <<"create table if not exists ", "User", " (",
               "id", "serial", "primary", "key", "autoincrement", "not", "null", ", ",
               "name", "varchar", "(", "50", ")", "unique", "not", "null", ", ",
               "email", "varchar", "(", "255", ")", ", ",
               "created_at", "varchar", "(", "40", ")", "default",
               "current_timestamp", "not", "null", ");">>
        /\ createArgs = <<"name", "email">>
        /\ updateArgs = <<"name", "email", "created_at">>
        /\ expanded.delete = "delete from User where id=?1;"
        /\ expanded.PK = "id"

\* C6 witness: the example model was expanded.
C6_Witness == Generated /\ fields = UserModel

\* Position of the first occurrence of a piece in a clause, 0 if absent.
IndexOf(v, x) ==
    IF \E k \in DOMAIN v : v[k] = x
    THEN CHOOSE k \in DOMAIN v : v[k] = x /\ \A m \in 1..(k - 1) : v[m] # x
    ELSE 0

\* C7: a clause contains not null exactly when the declared type is not an
\* optional wrapper, whatever the modifiers; not null comes after the
\* primary key, unique and default parts and before the references part.
C7_NotNull ==
    Generated =>
        \A i \in DOMAIN fields :
            LET c == Clause(i)
                p == IndexOf(c, "not")
            IN  /\ Contains(c, <<"not", "null">>) <=> ~Wrapped(fields[i])
                /\ Occurrences(c, "not") <= 1
                /\ p > 0 =>
                    /\ \A k \in DOMAIN c :
                          c[k] \in {"primary", "key", "autoincrement", "unique", "default"}
                              => k < p
                    /\ IndexOf(c, "default") > 0 => IndexOf(c, "default") + 1 < p
                    /\ IndexOf(c, "references") > 0 => IndexOf(c, "references") = p + 2

\* C7 witness: a non-nullable field carrying every kind of part.
C7_Witness ==
    /\ Generated
    /\ \E i \in DOMAIN fields :
        /\ ~Wrapped(fields[i])
        /\ MarkedPrimaryKey(fields[i]) /\ MarkedAuto(fields[i])
        /\ fields[i].unique = BoolLit("true")
        /\ fields[i].default = IntLit("7")
        /\ fields[i].foreign_key = FkLit(<<"users", ".", "id">>)
        /\ Contains(Clause(i), <<"default", "7", "not", "null", "references">>)

\* C8: the optional wrapper is removed exactly one level, and generation
\* fails exactly when the name left is not a semantic type.
C8_UnwrapOneLevel ==
    \A i \in DOMAIN fields :
        /\ UnwrapOnce(fields[i].ty) \notin SemanticTypes => Failed
        /\ ( /\ UnwrapOnce(fields[i].ty) \in SemanticTypes
             /\ ~DefaultNow(fields[i])
             /\ ~HasForeignKey(fields[i])
             /\ Len(fields) = 1 )
             => ~Failed

\* C9: default = "now" renders default current_date on Date and default
\* current_timestamp on DateTime; on any other type the generation fails
\* and nothing is emitted, wherever the field stands.
C9_DefaultNow ==
    \A i \in DOMAIN fields :
        DefaultNow(fields[i]) =>
            CASE SemanticType(fields[i]) = "Date" ->
                    Generated => Contains(Clause(i), <<"default", "current_date">>)
              [] SemanticType(fields[i]) = "DateTime" ->
                    Generated => Contains(Clause(i), <<"default", "current_timestamp">>)
              [] OTHER -> Failed

\* C9 witness: default = "now" on a later Integer field failed the whole
\* generation.
C9_Witness ==
    /\ Failed
    /\ Len(fields) > 1
    /\ DefaultNow(fields[Len(fields)])
    /\ SemanticType(fields[Len(fields)]) = "Integer"
    /\ \A i \in 1..(Len(fields) - 1) : ~DefaultNow(fields[i])

\* C10: a field left out of createArgs on account of its default modifier
\* has a default <expr> part in its clause.
C10_DefaultRendered ==
    Generated =>
        \A i \in DOMAIN fields :
            (HasDefault(fields[i]) /\ Occurrences(createArgs, Name(i)) = 0)
                => IndexOf(Clause(i), "default") > 0
====
